---- MODULE Spec2Model ----
(***************************************************************************)
(* A model of the useLiveGemini hook (src/hooks/useLiveGemini.ts): the     *)
(* session lifecycle (connect / onopen / onclose / onerror / disconnect /  *)
(* cleanup), the capture path (getUserMedia, onaudioprocess, the session   *)
(* promise wrapper) and the playback scheduler (onmessage, nextStartTime,  *)
(* activeSources, the onended grace timer).                                *)
(*                                                                         *)
(* Every action is one run-to-completion block of the single event loop:   *)
(* the synchronous code between two awaits, together with the promise      *)
(* reactions it triggers.  The awaits (getUserMedia, outputCtx.resume,     *)
(* decodeAudioData, the connect promise) are the suspension points.        *)
(* Times are integers in the clock domain of each AudioContext.            *)
(***************************************************************************)
EXTENDS Integers, Sequences, FiniteSets

\* ---- bounds of the model ------------------------------------------------
MaxSessions == 2      \* connect() calls that pass the guard
MaxMsgs == 2          \* inbound messages delivered to onmessage
HookMsgs == 1         \* of them, under Spec
SoloSessions == 1     \* sessions under the one-session specifications
MaxFrames == 3        \* frames produced by onaudioprocess
SoloFrames == 1       \* of them, under Spec and SpecSessions
MaxTime == 2          \* ticks each AudioContext clock may advance
PlayTime == 1         \* of them, under SpecPlay
MaxDur == 2           \* longest decoded chunk, in ticks
GraceDur == 1         \* longest chunk under SpecGrace

Sessions == 1..MaxSessions
Msgs == 1..MaxMsgs
Frames == 1..MaxFrames
Durations == 1..MaxDur

NoError == "null"

\* err.message of the exceptions and rejections the hook catches: "" stands
\* for an error without a message
Messages == {"", "boom", "socket hang up", "AudioContext unavailable",
             "An API Key must be set when running in a browser"}

\* err.message || fallback  (lines 275 and 281)
ErrorText(msg, fallback) == IF msg = "" THEN fallback ELSE msg

VARIABLES
  \* React state (useState) and the values captured by the last render
  isConnected, isConnecting, isSpeaking, error,
  inputAnalyser, outputAnalyser,
  rendered,
  \* refs (useRef); 0 is null, k > 0 the object created for session k
  inputAudioContextRef, outputAudioContextRef,
  scriptProcessorRef, inputSourceRef, streamRef,
  nextStartTimeRef, activeSourcesRef,
  sessionResolveRef, sessionPromiseRef,
  \* objects created by the k-th accepted connect()
  nSessions,      \* number of accepted connect() calls
  transport,      \* state of the k-th transport (ai.live.connect)
  closeCalled,    \* session.close() has been invoked on transport k
  connPromise,    \* the promise returned by ai.live.connect: its reaction ran?
  gate,           \* the wrapper promise p of session k: 0 pending, j resolved with session j
  waiters,        \* reactions queued on p of session k: 0 = close, f > 0 = send frame f
  onopenPc,       \* position of the onopen callback of session k
  inputCtx,       \* state of the input AudioContext of session k
  outputCtx,      \* state of the output AudioContext of session k
  clock,          \* outputCtx.currentTime of session k
  inputCloses, outputCloses,  \* close() calls made on each context of session k
  stream,         \* the MediaStream acquired by session k
  trackStops,     \* track.stop() rounds made on the stream of session k
  processorOn,    \* onaudioprocess of the processor of session k is set and connected
  \* capture
  nFrames, frameSrc, sentLog,
  \* playback
  nMsgs, handlers, sources, graceTimers,
  mounted

hookVars == <<isConnected, isConnecting, isSpeaking, error, inputAnalyser, outputAnalyser,
              inputAudioContextRef, outputAudioContextRef, scriptProcessorRef,
              inputSourceRef, streamRef, nextStartTimeRef, activeSourcesRef,
              sessionResolveRef, sessionPromiseRef>>

sessVars == <<nSessions, transport, closeCalled, connPromise, gate, waiters, onopenPc,
              inputCtx, outputCtx, clock, inputCloses, outputCloses, stream, trackStops,
              processorOn>>

captureVars == <<nFrames, frameSrc, sentLog>>

playVars == <<nMsgs, handlers, sources, graceTimers>>

vars == <<hookVars, rendered, sessVars, captureVars, playVars, mounted>>

Max(a, b) == IF a >= b THEN a ELSE b

NoHandler == [sess |-> 0, dur |-> 0, intr |-> FALSE, pc |-> "none"]
NoSource == [ctx |-> 0, when |-> 0, at |-> 0, dur |-> 0, st |-> "none", stops |-> 0]

Init ==
  /\ isConnected = FALSE /\ isConnecting = FALSE /\ isSpeaking = FALSE
  /\ error = NoError
  /\ inputAnalyser = 0 /\ outputAnalyser = 0
  /\ rendered = [isConnected |-> FALSE, isConnecting |-> FALSE]
  /\ inputAudioContextRef = 0 /\ outputAudioContextRef = 0
  /\ scriptProcessorRef = 0 /\ inputSourceRef = 0 /\ streamRef = 0
  /\ nextStartTimeRef = 0 /\ activeSourcesRef = {}
  /\ sessionResolveRef = 0 /\ sessionPromiseRef = 0
  /\ nSessions = 0
  /\ transport = [k \in Sessions |-> "none"]
  /\ closeCalled = [k \in Sessions |-> FALSE]
  /\ connPromise = [k \in Sessions |-> "pending"]
  /\ gate = [k \in Sessions |-> 0]
  /\ waiters = [k \in Sessions |-> <<>>]
  /\ onopenPc = [k \in Sessions |-> "idle"]
  /\ inputCtx = [k \in Sessions |-> "none"]
  /\ outputCtx = [k \in Sessions |-> "none"]
  /\ clock = [k \in Sessions |-> 0]
  /\ inputCloses = [k \in Sessions |-> 0]
  /\ outputCloses = [k \in Sessions |-> 0]
  /\ stream = [k \in Sessions |-> "none"]
  /\ trackStops = [k \in Sessions |-> 0]
  /\ processorOn = [k \in Sessions |-> FALSE]
  /\ nFrames = 0
  /\ frameSrc = [f \in Frames |-> 0]
  /\ sentLog = [k \in Sessions |-> <<>>]
  /\ nMsgs = 0
  /\ handlers = [i \in Msgs |-> NoHandler]
  /\ sources = [i \in Msgs |-> NoSource]
  /\ graceTimers = 0
  /\ mounted = TRUE

\* ---- cleanup (lines 47-96) ------------------------------------------------

\* activeSourcesRef.current.forEach(source => source.stop())
StopAll(srcs, live) ==
  [i \in Msgs |-> IF i \in live
                  THEN [srcs[i] EXCEPT !.st = "stopped", !.stops = @ + 1]
                  ELSE srcs[i]]

\* cleanup() that leaves outputAudioContextRef set after closing the context
CleanupAt_KeepOutputRef(ic, oc, sref, strm) ==
  /\ sources' = StopAll(sources, activeSourcesRef)
  /\ activeSourcesRef' = {}
  /\ processorOn' = [k \in Sessions |->
                       IF k = scriptProcessorRef THEN FALSE ELSE processorOn[k]]
  /\ scriptProcessorRef' = 0
  /\ inputSourceRef' = 0
  /\ stream' = [k \in Sessions |-> IF k = sref THEN "stopped" ELSE strm[k]]
  /\ trackStops' = [k \in Sessions |->
                      IF k = sref THEN trackStops[k] + 1 ELSE trackStops[k]]
  /\ streamRef' = 0
  /\ inputCtx' = [k \in Sessions |-> IF k = ic THEN "closed" ELSE inputCtx[k]]
  /\ inputCloses' = [k \in Sessions |->
                       IF k = ic THEN inputCloses[k] + 1 ELSE inputCloses[k]]
  /\ inputAudioContextRef' = 0
  /\ outputCtx' = [k \in Sessions |-> IF k = oc THEN "closed" ELSE outputCtx[k]]
  /\ outputCloses' = [k \in Sessions |->
                        IF k = oc THEN outputCloses[k] + 1 ELSE outputCloses[k]]
  /\ outputAudioContextRef' = oc
  /\ nextStartTimeRef' = 0
  /\ sessionPromiseRef' = 0
  /\ sessionResolveRef' = 0
  /\ isConnected' = FALSE
  /\ isConnecting' = FALSE
  /\ isSpeaking' = FALSE
  /\ inputAnalyser' = 0
  /\ outputAnalyser' = 0

\* The refs and React state after cleanup().  ic, oc, sref and strm are the
\* values of inputAudioContextRef, outputAudioContextRef, streamRef and stream
\* at the call: connect and onopen assign them just before they may throw.
CleanupAt(ic, oc, sref, strm) ==
  /\ sources' = StopAll(sources, activeSourcesRef)
  /\ activeSourcesRef' = {}
  /\ processorOn' = [k \in Sessions |->
                       IF k = scriptProcessorRef THEN FALSE ELSE processorOn[k]]
  /\ scriptProcessorRef' = 0
  /\ inputSourceRef' = 0
  /\ stream' = [k \in Sessions |-> IF k = sref THEN "stopped" ELSE strm[k]]
  /\ trackStops' = [k \in Sessions |->
                      IF k = sref THEN trackStops[k] + 1 ELSE trackStops[k]]
  /\ streamRef' = 0
  /\ inputCtx' = [k \in Sessions |-> IF k = ic THEN "closed" ELSE inputCtx[k]]
  /\ inputCloses' = [k \in Sessions |->
                       IF k = ic THEN inputCloses[k] + 1 ELSE inputCloses[k]]
  /\ inputAudioContextRef' = 0
  /\ outputCtx' = [k \in Sessions |-> IF k = oc THEN "closed" ELSE outputCtx[k]]
  /\ outputCloses' = [k \in Sessions |->
                        IF k = oc THEN outputCloses[k] + 1 ELSE outputCloses[k]]
  /\ outputAudioContextRef' = 0
  /\ nextStartTimeRef' = 0
  /\ sessionPromiseRef' = 0
  /\ sessionResolveRef' = 0
  /\ isConnected' = FALSE
  /\ isConnecting' = FALSE
  /\ isSpeaking' = FALSE
  /\ inputAnalyser' = 0
  /\ outputAnalyser' = 0

Cleanup == CleanupAt(inputAudioContextRef, outputAudioContextRef, streamRef, stream)

\* ---- rendering -----------------------------------------------------------
\* A re-render rebuilds connect (useCallback deps, line 285) over the
\* current isConnected / isConnecting.
Render ==
  /\ mounted
  /\ rendered # [isConnected |-> isConnected, isConnecting |-> isConnecting]
  /\ rendered' = [isConnected |-> isConnected, isConnecting |-> isConnecting]
  /\ UNCHANGED <<hookVars, sessVars, captureVars, playVars, mounted>>

\* ---- connect (lines 98-285) ---------------------------------------------

\* if (isConnected || isConnecting) return;   over the values of the last render
ConnectGuard == ~(rendered.isConnected \/ rendered.isConnecting)

\* connect() that acquires the microphone itself, before the transport opens
Connect_EagerCapture ==
  /\ mounted
  /\ ConnectGuard
  /\ nSessions < MaxSessions
  /\ LET k == nSessions + 1 IN
     /\ nSessions' = k
     /\ isConnecting' = TRUE
     /\ error' = NoError
     /\ inputCtx' = [inputCtx EXCEPT ![k] = "running"]
     /\ outputCtx' = [outputCtx EXCEPT ![k] = "running"]
     /\ inputAudioContextRef' = k
     /\ outputAudioContextRef' = k
     /\ inputAnalyser' = k
     /\ outputAnalyser' = k
     /\ sessionResolveRef' = k
     /\ sessionPromiseRef' = k
     /\ transport' = [transport EXCEPT ![k] = "connecting"]
     /\ stream' = [stream EXCEPT ![k] = "live"]
     /\ streamRef' = k
  /\ UNCHANGED <<isConnected, isSpeaking, scriptProcessorRef, inputSourceRef,
                 nextStartTimeRef, activeSourcesRef, rendered, closeCalled, connPromise,
                 gate, waiters, onopenPc, clock, inputCloses, outputCloses,
                 trackStops, processorOn, captureVars, playVars, mounted>>

\* The try block runs to its end: contexts, analysers, promise wrapper,
\* ai.live.connect.
Connect ==
  /\ mounted
  /\ ConnectGuard
  /\ nSessions < MaxSessions
  /\ LET k == nSessions + 1 IN
     /\ nSessions' = k
     /\ isConnecting' = TRUE
     /\ error' = NoError
     /\ inputCtx' = [inputCtx EXCEPT ![k] = "running"]
     /\ outputCtx' = [outputCtx EXCEPT ![k] = "running"]
     /\ inputAudioContextRef' = k
     /\ outputAudioContextRef' = k
     /\ inputAnalyser' = k
     /\ outputAnalyser' = k
     /\ sessionResolveRef' = k
     /\ sessionPromiseRef' = k
     /\ transport' = [transport EXCEPT ![k] = "connecting"]
  /\ UNCHANGED <<isConnected, isSpeaking, scriptProcessorRef, inputSourceRef, streamRef,
                 nextStartTimeRef, activeSourcesRef, rendered, closeCalled, connPromise,
                 gate, waiters, onopenPc, clock, inputCloses, outputCloses, stream,
                 trackStops, processorOn, captureVars, playVars, mounted>>

\* The try block throws: catch, lines 279-284.  Either new AudioContext throws
\* (line 107) and the refs are as they were, or a later line does (the client
\* of line 130) and the refs hold two fresh contexts, which cleanup closes while
\* the ones they replaced stay open.
ConnectThrow(late) ==
  /\ mounted
  /\ ConnectGuard
  /\ \E msg \in Messages : error' = ErrorText(msg, "Failed to connect")
  /\ IF late THEN CleanupAt(0, 0, streamRef, stream) ELSE Cleanup
  /\ UNCHANGED <<rendered, nSessions, transport, closeCalled, connPromise, gate, waiters,
                 onopenPc, clock, captureVars, nMsgs, handlers, graceTimers, mounted>>

\* ---- the transport's callbacks ---------------------------------------------

\* onopen up to its await (lines 153-160)
OnOpen(k) ==
  /\ transport[k] = "connecting"
  /\ transport' = [transport EXCEPT ![k] = "open"]
  /\ isConnected' = TRUE
  /\ isConnecting' = FALSE
  /\ onopenPc' = [onopenPc EXCEPT ![k] = "getUserMedia"]
  /\ UNCHANGED <<isSpeaking, error, inputAnalyser, outputAnalyser, rendered,
                 inputAudioContextRef, outputAudioContextRef, scriptProcessorRef,
                 inputSourceRef, streamRef, nextStartTimeRef, activeSourcesRef,
                 sessionResolveRef, sessionPromiseRef, nSessions, closeCalled,
                 connPromise, gate, waiters, inputCtx, outputCtx, clock, inputCloses,
                 outputCloses, stream, trackStops, processorOn, captureVars, playVars,
                 mounted>>

\* getUserMedia resolved and the capture graph is built (lines 161-188)
GetUserMediaOk(k) ==
  /\ onopenPc[k] = "getUserMedia"
  /\ onopenPc' = [onopenPc EXCEPT ![k] = "done"]
  /\ stream' = [stream EXCEPT ![k] = "live"]
  /\ streamRef' = k
  /\ inputSourceRef' = k
  /\ scriptProcessorRef' = k
  /\ processorOn' = [processorOn EXCEPT ![k] = TRUE]
  /\ UNCHANGED <<isConnected, isConnecting, isSpeaking, error, inputAnalyser,
                 outputAnalyser, rendered, inputAudioContextRef, outputAudioContextRef,
                 nextStartTimeRef, activeSourcesRef, sessionResolveRef, sessionPromiseRef,
                 nSessions, transport, closeCalled, connPromise, gate, waiters, inputCtx,
                 outputCtx, clock, inputCloses, outputCloses, trackStops, captureVars,
                 playVars, mounted>>

\* getUserMedia resolved but building the graph on the already closed input
\* context throws (InvalidStateError in engines that check): catch, lines 189-193.
\* The stream was stored at line 161, so cleanup stops it.
GetUserMediaThrow(k) ==
  /\ onopenPc[k] = "getUserMedia"
  /\ inputCtx[k] = "closed"
  /\ onopenPc' = [onopenPc EXCEPT ![k] = "done"]
  /\ error' = "Microphone access failed."
  /\ CleanupAt(inputAudioContextRef, outputAudioContextRef, k,
               [stream EXCEPT ![k] = "live"])
  /\ UNCHANGED <<rendered, nSessions, transport, closeCalled, connPromise, gate, waiters,
                 clock, captureVars, nMsgs, handlers, graceTimers, mounted>>

\* getUserMedia rejected (permission denied, no device): catch, lines 189-193
GetUserMediaFail(k) ==
  /\ onopenPc[k] = "getUserMedia"
  /\ onopenPc' = [onopenPc EXCEPT ![k] = "done"]
  /\ error' = "Microphone access failed."
  /\ Cleanup
  /\ UNCHANGED <<rendered, nSessions, transport, closeCalled, connPromise, gate, waiters,
                 clock, captureVars, nMsgs, handlers, graceTimers, mounted>>

\* The reactions queued on a wrapper promise run in order once it is resolved
\* with the handle of session j: a send (line 179) or a close (line 294).
SentBy(ws) == SelectSeq(ws, LAMBDA w : w > 0)
ClosedBy(ws) == \E n \in 1..Len(ws) : ws[n] = 0

\* sessionPromise.then (lines 267-272): the connect promise of session k is
\* fulfilled after the transport has opened; it resolves whatever resolver the
\* ref holds now.
ConnResolved(k) ==
  /\ connPromise[k] = "pending"
  /\ onopenPc[k] # "idle"
  /\ connPromise' = [connPromise EXCEPT ![k] = "resolved"]
  /\ LET r == sessionResolveRef IN
     IF r # 0 /\ gate[r] = 0
     THEN /\ gate' = [gate EXCEPT ![r] = k]
          /\ sentLog' = [sentLog EXCEPT ![k] = @ \o SentBy(waiters[r])]
          /\ closeCalled' = [closeCalled EXCEPT ![k] = @ \/ ClosedBy(waiters[r])]
          /\ waiters' = [waiters EXCEPT ![r] = <<>>]
     ELSE UNCHANGED <<gate, sentLog, closeCalled, waiters>>
  /\ UNCHANGED <<hookVars, rendered, nSessions, transport, onopenPc, inputCtx, outputCtx,
                 clock, inputCloses, outputCloses, stream, trackStops, processorOn,
                 nFrames, frameSrc, playVars, mounted>>

\* sessionPromise.catch (lines 273-277): the connect promise is rejected
ConnRejected(k) ==
  /\ transport[k] = "connecting"
  /\ connPromise[k] = "pending"
  /\ transport' = [transport EXCEPT ![k] = "failed"]
  /\ connPromise' = [connPromise EXCEPT ![k] = "rejected"]
  /\ \E msg \in Messages : error' = ErrorText(msg, "Connection failed")
  /\ Cleanup
  /\ UNCHANGED <<rendered, nSessions, closeCalled, gate, waiters, onopenPc, clock,
                 captureVars, nMsgs, handlers, graceTimers, mounted>>

\* onerror (lines 258-262)
OnError(k) ==
  /\ transport[k] \in {"connecting", "open"}
  /\ transport' = [transport EXCEPT ![k] = "errored"]
  /\ error' = "Connection error."
  /\ Cleanup
  /\ UNCHANGED <<rendered, nSessions, closeCalled, connPromise, gate, waiters, onopenPc,
                 clock, captureVars, nMsgs, handlers, graceTimers, mounted>>

\* onclose (lines 254-257): the transport of session k has closed, after a
\* local close(), an error, or on the remote side's initiative
OnClose(k) ==
  /\ transport[k] \in {"open", "errored"}
  /\ transport' = [transport EXCEPT ![k] = "closed"]
  /\ Cleanup
  /\ UNCHANGED <<error, rendered, nSessions, closeCalled, connPromise, gate, waiters,
                 onopenPc, clock, captureVars, nMsgs, handlers, graceTimers, mounted>>

\* ---- disconnect (lines 287-303) and unmount (lines 305-309) ----------------

Disconnect ==
  /\ mounted
  /\ LET p == sessionPromiseRef IN
     IF p = 0 THEN UNCHANGED <<closeCalled, waiters>>
     ELSE IF gate[p] # 0
          THEN /\ closeCalled' = [closeCalled EXCEPT ![gate[p]] = TRUE]
               /\ UNCHANGED waiters
          ELSE /\ waiters' = [waiters EXCEPT ![p] = Append(@, 0)]
               /\ UNCHANGED closeCalled
  /\ Cleanup
  /\ UNCHANGED <<error, rendered, nSessions, transport, connPromise, gate, onopenPc,
                 clock, captureVars, nMsgs, handlers, graceTimers, mounted>>

Unmount ==
  /\ mounted
  /\ mounted' = FALSE
  /\ Cleanup
  /\ UNCHANGED <<error, rendered, nSessions, transport, closeCalled, connPromise, gate,
                 waiters, onopenPc, clock, captureVars, nMsgs, handlers, graceTimers>>

\* ---- capture: processor.onaudioprocess (lines 171-185) ---------------------

\* an onaudioprocess that sends only through a handle that is already there,
\* and drops the frame otherwise
AudioProcess_DropPending(k) ==
  /\ processorOn[k]
  /\ inputCtx[k] = "running"
  /\ nFrames < MaxFrames
  /\ LET f == nFrames + 1
         p == sessionPromiseRef IN
     /\ nFrames' = f
     /\ frameSrc' = [frameSrc EXCEPT ![f] = k]
     /\ IF p # 0 /\ gate[p] # 0
        THEN sentLog' = [sentLog EXCEPT ![gate[p]] = Append(@, f)]
        ELSE UNCHANGED sentLog
     /\ UNCHANGED waiters
  /\ UNCHANGED <<hookVars, rendered, nSessions, transport, closeCalled, connPromise, gate,
                 onopenPc, inputCtx, outputCtx, clock, inputCloses, outputCloses, stream,
                 trackStops, processorOn, playVars, mounted>>

AudioProcess(k) ==
  /\ processorOn[k]
  /\ inputCtx[k] = "running"
  /\ nFrames < MaxFrames
  /\ LET f == nFrames + 1
         p == sessionPromiseRef IN
     /\ nFrames' = f
     /\ frameSrc' = [frameSrc EXCEPT ![f] = k]
     /\ IF p = 0 THEN UNCHANGED <<sentLog, waiters>>
        ELSE IF gate[p] # 0
             THEN /\ sentLog' = [sentLog EXCEPT ![gate[p]] = Append(@, f)]
                  /\ UNCHANGED waiters
             ELSE /\ waiters' = [waiters EXCEPT ![p] = Append(@, f)]
                  /\ UNCHANGED sentLog
  /\ UNCHANGED <<hookVars, rendered, nSessions, transport, closeCalled, connPromise, gate,
                 onopenPc, inputCtx, outputCtx, clock, inputCloses, outputCloses, stream,
                 trackStops, processorOn, playVars, mounted>>

\* ---- playback: onmessage (lines 195-253) ---------------------------------

\* Math.max(nextStartTimeRef.current, outputCtx.currentTime), lines 206-209
Reanchor(ns, ct) == Max(ns, ct)

\* a cursor that advances by a fixed step instead of the decoded duration
Advance_Unit(ns, d) == ns + 1

\* nextStartTimeRef.current += audioBuffer.duration, line 224
Advance(ns, d) == ns + d

\* an interruption branch that stops the sources and forgets to clear the set
Interruption_NoClear(srcs, act) ==
  [sources |-> StopAll(srcs, act), active |-> act, nextStart |-> 0, speaking |-> FALSE]

\* The interruption branch (lines 244-252) applied to the sources srcs and the
\* live set act: the sources, live set, nextStartTime and isSpeaking it leaves.
Interruption(srcs, act) ==
  [sources |-> StopAll(srcs, act), active |-> {}, nextStart |-> 0, speaking |-> FALSE]

\* A message arrives on the open transport of session k: d > 0 is the duration
\* of its audio chunk (0: no audio), intr its interrupted flag.  The handler
\* runs to its first await, or to its end when there is none.
OnMessage(k, d, intr) ==
  /\ transport[k] = "open"
  /\ nMsgs < MaxMsgs
  /\ d > 0 \/ intr
  /\ LET i == nMsgs + 1 IN
     /\ nMsgs' = i
     /\ IF d > 0
        THEN IF outputCtx[k] = "suspended"
             THEN /\ handlers' = [handlers EXCEPT ![i] =
                        [sess |-> k, dur |-> d, intr |-> intr, pc |-> "resume"]]
                  /\ UNCHANGED <<nextStartTimeRef, activeSourcesRef, isSpeaking, sources>>
             ELSE /\ handlers' = [handlers EXCEPT ![i] =
                        [sess |-> k, dur |-> d, intr |-> intr, pc |-> "decode"]]
                  /\ nextStartTimeRef' = Reanchor(nextStartTimeRef, clock[k])
                  /\ UNCHANGED <<activeSourcesRef, isSpeaking, sources>>
        ELSE LET r == Interruption(sources, activeSourcesRef) IN
             /\ handlers' = [handlers EXCEPT ![i] =
                   [sess |-> k, dur |-> 0, intr |-> TRUE, pc |-> "done"]]
             /\ sources' = r.sources
             /\ activeSourcesRef' = r.active
             /\ nextStartTimeRef' = r.nextStart
             /\ isSpeaking' = r.speaking
  /\ UNCHANGED <<isConnected, isConnecting, error, inputAnalyser, outputAnalyser, rendered,
                 inputAudioContextRef, outputAudioContextRef, scriptProcessorRef,
                 inputSourceRef, streamRef, sessionResolveRef, sessionPromiseRef,
                 sessVars, captureVars, graceTimers, mounted>>

\* a catch path that also rewinds the cursor
AfterCatch_Reset(i) ==
  /\ handlers' = [handlers EXCEPT ![i].pc = "done"]
  /\ nextStartTimeRef' = 0
  /\ UNCHANGED <<sources, activeSourcesRef, isSpeaking, outputCtx>>

\* The end of a handler whose audio branch left through catch (lines 238-240):
\* only the interruption branch is left to run.
AfterCatch(i) ==
  /\ handlers' = [handlers EXCEPT ![i].pc = "done"]
  /\ IF handlers[i].intr
     THEN LET r == Interruption(sources, activeSourcesRef) IN
          /\ sources' = r.sources
          /\ activeSourcesRef' = r.active
          /\ nextStartTimeRef' = r.nextStart
          /\ isSpeaking' = r.speaking
     ELSE UNCHANGED <<sources, activeSourcesRef, nextStartTimeRef, isSpeaking>>
  /\ UNCHANGED outputCtx

\* await outputCtx.resume() returns (lines 201-209).  On a running context the
\* handler re-anchors and starts decoding.  On a context closed meanwhile the
\* promise is rejected (ok = FALSE) or, in engines that settle it, fulfilled.
ResumeDone(i, ok) ==
  /\ handlers[i].pc = "resume"
  /\ LET k == handlers[i].sess IN
     /\ outputCtx[k] # "closed" => ok
     /\ IF ok
        THEN /\ outputCtx' = [outputCtx EXCEPT ![k] = IF @ = "closed" THEN @ ELSE "running"]
             /\ handlers' = [handlers EXCEPT ![i].pc = "decode"]
             /\ nextStartTimeRef' = Reanchor(nextStartTimeRef, clock[k])
             /\ UNCHANGED <<sources, activeSourcesRef, isSpeaking>>
        ELSE AfterCatch(i)
  /\ UNCHANGED <<isConnected, isConnecting, error, inputAnalyser, outputAnalyser, rendered,
                 inputAudioContextRef, outputAudioContextRef, scriptProcessorRef,
                 inputSourceRef, streamRef, sessionResolveRef, sessionPromiseRef,
                 nSessions, transport, closeCalled, connPromise, gate, waiters, onopenPc,
                 inputCtx, clock, inputCloses, outputCloses, stream, trackStops,
                 processorOn, captureVars, nMsgs, graceTimers, mounted>>

\* The source created at lines 218-224 for message i: started at when, while
\* the output context's clock reads at.
NewSource(i, when) ==
  [ctx |-> handlers[i].sess, when |-> when, at |-> clock[handlers[i].sess],
   dur |-> handlers[i].dur, st |-> "live", stops |-> 0]

\* await decodeAudioData returns (lines 211-241): with a buffer (ok), the
\* segment is started at nextStartTime, the cursor advanced, the source added
\* to the live set and isSpeaking set; then the interruption branch runs when
\* the same message carries the flag.  Without (decode threw), catch.
DecodeDone(i, ok) ==
  /\ handlers[i].pc = "decode"
  /\ IF ok
     THEN LET srcs == [sources EXCEPT ![i] = NewSource(i, nextStartTimeRef)]
              act == activeSourcesRef \cup {i}
              r == Interruption(srcs, act)
          IN /\ handlers' = [handlers EXCEPT ![i].pc = "done"]
             /\ IF handlers[i].intr
                THEN /\ sources' = r.sources
                     /\ activeSourcesRef' = r.active
                     /\ nextStartTimeRef' = r.nextStart
                     /\ isSpeaking' = r.speaking
                ELSE /\ sources' = srcs
                     /\ activeSourcesRef' = act
                     /\ nextStartTimeRef' = Advance(nextStartTimeRef, handlers[i].dur)
                     /\ isSpeaking' = TRUE
             /\ UNCHANGED outputCtx
     ELSE AfterCatch(i)
  /\ UNCHANGED <<isConnected, isConnecting, error, inputAnalyser, outputAnalyser, rendered,
                 inputAudioContextRef, outputAudioContextRef, scriptProcessorRef,
                 inputSourceRef, streamRef, sessionResolveRef, sessionPromiseRef,
                 nSessions, transport, closeCalled, connPromise, gate, waiters, onopenPc,
                 inputCtx, clock, inputCloses, outputCloses, stream, trackStops,
                 processorOn, captureVars, nMsgs, graceTimers, mounted>>

\* AudioBufferSourceNode.start(when): playback begins at when, or at once when
\* when is already past.
Begin(s) == Max(s.when, s.at)
End(s) == Begin(s) + s.dur

\* an ended handler that removes the source and arms no timer
OnEnded_NoTimer(i) ==
  /\ \/ /\ sources[i].st = "live"
        /\ outputCtx[sources[i].ctx] = "running"
        /\ clock[sources[i].ctx] >= End(sources[i])
        /\ sources' = [sources EXCEPT ![i].st = "ended"]
     \/ /\ sources[i].st = "stopped"
        /\ sources' = [sources EXCEPT ![i].st = "stoppedEnded"]
  /\ activeSourcesRef' = activeSourcesRef \ {i}
  /\ UNCHANGED <<isConnected, isConnecting, isSpeaking, error, inputAnalyser,
                 outputAnalyser, rendered, inputAudioContextRef, outputAudioContextRef,
                 scriptProcessorRef, inputSourceRef, streamRef, nextStartTimeRef,
                 sessionResolveRef, sessionPromiseRef, sessVars, captureVars, nMsgs,
                 handlers, graceTimers, mounted>>

\* source.onended (lines 229-237): the ended event of source i, after its
\* buffer has played to the end or after stop(); it arms the grace timer.
OnEnded(i) ==
  /\ \/ /\ sources[i].st = "live"
        /\ outputCtx[sources[i].ctx] = "running"
        /\ clock[sources[i].ctx] >= End(sources[i])
        /\ sources' = [sources EXCEPT ![i].st = "ended"]
     \/ /\ sources[i].st = "stopped"
        /\ sources' = [sources EXCEPT ![i].st = "stoppedEnded"]
  /\ activeSourcesRef' = activeSourcesRef \ {i}
  /\ graceTimers' = graceTimers + 1
  /\ UNCHANGED <<isConnected, isConnecting, isSpeaking, error, inputAnalyser,
                 outputAnalyser, rendered, inputAudioContextRef, outputAudioContextRef,
                 scriptProcessorRef, inputSourceRef, streamRef, nextStartTimeRef,
                 sessionResolveRef, sessionPromiseRef, sessVars, captureVars, nMsgs,
                 handlers, mounted>>

\* a timer callback that drops the size test of line 233
GraceTimer_Unconditional ==
  /\ graceTimers > 0
  /\ graceTimers' = graceTimers - 1
  /\ isSpeaking' = FALSE
  /\ UNCHANGED <<isConnected, isConnecting, error, inputAnalyser, outputAnalyser, rendered,
                 inputAudioContextRef, outputAudioContextRef, scriptProcessorRef,
                 inputSourceRef, streamRef, nextStartTimeRef, activeSourcesRef,
                 sessionResolveRef, sessionPromiseRef, sessVars, captureVars, nMsgs,
                 handlers, sources, mounted>>

\* the setTimeout callback of lines 232-236
GraceTimer ==
  /\ graceTimers > 0
  /\ graceTimers' = graceTimers - 1
  /\ isSpeaking' = IF activeSourcesRef = {} THEN FALSE ELSE isSpeaking
  /\ UNCHANGED <<isConnected, isConnecting, error, inputAnalyser, outputAnalyser, rendered,
                 inputAudioContextRef, outputAudioContextRef, scriptProcessorRef,
                 inputSourceRef, streamRef, nextStartTimeRef, activeSourcesRef,
                 sessionResolveRef, sessionPromiseRef, sessVars, captureVars, nMsgs,
                 handlers, sources, mounted>>

\* The browser suspends a running output context (autoplay policy, power
\* saving): the state that line 201 tests for.
Suspend(k) ==
  /\ outputCtx[k] = "running"
  /\ outputCtx' = [outputCtx EXCEPT ![k] = "suspended"]
  /\ UNCHANGED <<hookVars, rendered, nSessions, transport, closeCalled, connPromise, gate,
                 waiters, onopenPc, inputCtx, clock, inputCloses, outputCloses, stream,
                 trackStops, processorOn, captureVars, playVars, mounted>>

\* the clock of a running output context advances
Tick(k) ==
  /\ outputCtx[k] = "running"
  /\ clock[k] < MaxTime
  /\ clock' = [clock EXCEPT ![k] = @ + 1]
  /\ UNCHANGED <<hookVars, rendered, nSessions, transport, closeCalled, connPromise, gate,
                 waiters, onopenPc, inputCtx, outputCtx, inputCloses, outputCloses, stream,
                 trackStops, processorOn, captureVars, playVars, mounted>>

\* ---- specifications -------------------------------------------------------

UserStep ==
  \/ Render
  \/ Disconnect
  \/ Unmount
  \/ \E late \in BOOLEAN : ConnectThrow(late)

SessionStep ==
  \/ \E k \in Sessions : OnOpen(k)
  \/ \E k \in Sessions : GetUserMediaOk(k)
  \/ \E k \in Sessions : GetUserMediaThrow(k)
  \/ \E k \in Sessions : GetUserMediaFail(k)
  \/ \E k \in Sessions : ConnResolved(k)
  \/ \E k \in Sessions : ConnRejected(k)
  \/ \E k \in Sessions : OnError(k)
  \/ \E k \in Sessions : OnClose(k)

\* onaudioprocess under the bound of Spec and SpecSessions
AudioProcessSolo(k) == nFrames < SoloFrames /\ AudioProcess(k)

LifecycleStep ==
  \/ SessionStep
  \/ \E k \in Sessions : AudioProcessSolo(k)

\* what follows the arrival of a message: the continuations of its handler,
\* the ended events and their timers, and the browser suspending the context
HandlerStep ==
  \/ \E i \in Msgs, ok \in BOOLEAN : ResumeDone(i, ok)
  \/ \E i \in Msgs, ok \in BOOLEAN : DecodeDone(i, ok)
  \/ \E i \in Msgs : OnEnded(i)
  \/ GraceTimer
  \/ \E k \in Sessions : Suspend(k)

\* the same, with the clock of the output context
PlaybackStep ==
  \/ HandlerStep
  \/ \E k \in Sessions : Tick(k)

\* the clock under the bound of SpecPlay
TickPlay(k) == clock[k] < PlayTime /\ Tick(k)

\* connect() and onmessage under the bounds of the one-session specifications
ConnectSolo == nSessions < SoloSessions /\ Connect
OnMessageHook(k, d, intr) == nMsgs < HookMsgs /\ OnMessage(k, d, intr)

\* The whole hook, every handler interleaved with every other, over
\* SoloSessions sessions and HookMsgs messages.
Next ==
  \/ ConnectSolo
  \/ UserStep
  \/ LifecycleStep
  \/ \E k \in Sessions, d \in 0..MaxDur, intr \in BOOLEAN : OnMessageHook(k, d, intr)
  \/ PlaybackStep

Spec == Init /\ [][Next]_vars

\* The lifecycle and the capture path over MaxSessions sessions: connect,
\* disconnect and the callbacks of several transports interleaved.
NextSessions == Connect \/ UserStep \/ LifecycleStep

SpecSessions == Init /\ [][NextSessions]_vars

\* The capture path of one session over MaxFrames frames.
NextCapture ==
  \/ ConnectSolo
  \/ UserStep
  \/ SessionStep
  \/ \E k \in Sessions : AudioProcess(k)

SpecCapture == Init /\ [][NextCapture]_vars

\* The teardowns that interleave with playback: every caller of cleanup, and
\* the connect() calls that throw at any time (the render that would refuse
\* them has not happened: connect still sees the flags of its last render).
TeardownCall ==
  \/ \E late \in BOOLEAN : ConnectThrow(late)
  \/ Disconnect
  \/ Unmount
  \/ \E k \in Sessions : GetUserMediaThrow(k)
  \/ \E k \in Sessions : GetUserMediaFail(k)
  \/ \E k \in Sessions : ConnRejected(k)
  \/ \E k \in Sessions : OnError(k)
  \/ \E k \in Sessions : OnClose(k)

\* The playback scheduler of one session over MaxMsgs messages and PlayTime
\* ticks, with every caller of cleanup.
NextPlay ==
  \/ ConnectSolo
  \/ TeardownCall
  \/ \E k \in Sessions : OnOpen(k)
  \/ \E k \in Sessions, d \in 0..MaxDur, intr \in BOOLEAN : OnMessage(k, d, intr)
  \/ HandlerStep
  \/ \E k \in Sessions : TickPlay(k)

SpecPlay == Init /\ [][NextPlay]_vars

\* The same over MaxTime ticks, with chunks of at most GraceDur ticks: long
\* enough for two segments to play out one after the other.
NextGrace ==
  \/ ConnectSolo
  \/ TeardownCall
  \/ \E k \in Sessions : OnOpen(k)
  \/ \E k \in Sessions, d \in 0..GraceDur, intr \in BOOLEAN : OnMessage(k, d, intr)
  \/ PlaybackStep

SpecGrace == Init /\ [][NextGrace]_vars

\* ---- C1: no two scheduled segments overlap ----------------------------------

\* the segments the device plays to their end or is still to play
Audible(i) == sources[i].st \in {"live", "ended"}

Overlap(s, t) == Begin(s) < End(t) /\ Begin(t) < End(s)

\* C1 (P1, no overlap): no two segments scheduled by onmessage on the same
\* output context, neither of them cut by an interruption, have overlapping
\* intervals [start, start + duration), start being the time at which the
\* device starts the segment.
C1_NoOverlap ==
  \A i, j \in Msgs :
    (i # j /\ Audible(i) /\ Audible(j) /\ sources[i].ctx = sources[j].ctx)
      => ~Overlap(sources[i], sources[j])

\* ---- C2: connect() while Connecting or Open is a no-op ----------------------

\* C2: while the status is connecting or connected no connect() call gets past
\* the guard: none starts a session, none runs the catch path.
C2_ConnectNoOp ==
  [][(isConnected \/ isConnecting) => ~(Connect \/ \E late \in BOOLEAN : ConnectThrow(late))]_vars

\* ---- C3: capture gating -----------------------------------------------------

\* the transport of session k has confirmed openness: its onopen has run
Opened(k) == onopenPc[k] # "idle"

FramesOf(log) == {log[n] : n \in 1..Len(log)}

\* C3 (P5, capture gating): the capture device of a session is acquired, and a
\* frame is handed to a transport's send, only after onopen of the session
\* that captures; and the transport that is handed a frame has opened.
C3_CaptureGating ==
  \A k \in Sessions :
    /\ (stream[k] # "none" \/ processorOn[k]) => Opened(k)
    /\ \A f \in FramesOf(sentLog[k]) : Opened(k) /\ Opened(frameSrc[f])

\* a frame captured by an opened session has been handed to send
C3_Witness ==
  \E k \in Sessions : \E f \in FramesOf(sentLog[k]) : stream[frameSrc[f]] # "none"

\* ---- C4: interruption is total ----------------------------------------------

\* the step in which the interruption branch of handler i runs
InterruptionStep(i) ==
  handlers[i].pc # "done" /\ handlers'[i].pc = "done" /\ handlers'[i].intr

\* C4 (P3, interruption is total): the step that processes an interrupted
\* event stops every source of the live set and leaves the set empty,
\* nextStartTime 0 and isSpeaking false.
C4_InterruptionTotal ==
  [][(\E i \in Msgs : InterruptionStep(i)) =>
        /\ \A j \in activeSourcesRef : sources'[j].st = "stopped"
        /\ \A j \in Msgs : sources'[j].st # "live"
        /\ activeSourcesRef' = {}
        /\ nextStartTimeRef' = 0
        /\ ~isSpeaking']_vars

\* an interruption has been processed while two segments were live, in a
\* session that no teardown has touched
C4_Witness ==
  /\ isConnected /\ outputAudioContextRef # 0
  /\ \E i \in Msgs : handlers[i].intr /\ handlers[i].pc = "done"
  /\ Cardinality({j \in Msgs : sources[j].st = "stopped"}) >= 2
  /\ activeSourcesRef = {} /\ nextStartTimeRef = 0 /\ ~isSpeaking

\* ---- C5: disconnect is total ------------------------------------------------

\* cleanup() has run and no connect() has been accepted since: only connect
\* stores the contexts and only cleanup clears them
TornDown == outputAudioContextRef = 0 /\ inputAudioContextRef = 0

\* C5: from a teardown until the next accepted connect() the status is
\* disconnected, no capture device and no processing node is held, the live
\* set is empty and isSpeaking is false.
C5_DisconnectTotal ==
  TornDown =>
    /\ ~isConnected /\ ~isConnecting
    /\ \A k \in Sessions : stream[k] # "live" /\ ~processorOn[k]
    /\ streamRef = 0 /\ scriptProcessorRef = 0
    /\ activeSourcesRef = {}
    /\ ~isSpeaking

\* ---- C6: a late onclose is a no-op ------------------------------------------

\* C6: onclose of a session on whose handle disconnect() has invoked close()
\* changes nothing of the hook's state.
C6_LateCloseNoOp ==
  [][\A k \in Sessions : (closeCalled[k] /\ OnClose(k)) => UNCHANGED hookVars]_vars

\* ---- C7: capture failure after open -----------------------------------------

\* C7 (scenario D): the step that handles a failed getUserMedia invokes close
\* on the open transport and leaves the status disconnected with an error.
C7_CaptureFailureCloses ==
  [][\A k \in Sessions :
        GetUserMediaFail(k) =>
          /\ closeCalled'[k]
          /\ ~isConnected' /\ ~isConnecting'
          /\ error' # NoError]_vars

\* ---- C8: the activity signal ------------------------------------------------

\* C8 as stated: isSpeaking if and only if the live set is non-empty.
C8_Original == isSpeaking <=> activeSourcesRef # {}

\* C8 as amended: isSpeaking is true whenever the live set is non-empty; with
\* an empty set it is true only while a grace timer armed by an ended event is
\* pending.
C8_Activity ==
  /\ activeSourcesRef # {} => isSpeaking
  /\ (isSpeaking /\ activeSourcesRef = {}) => graceTimers > 0

\* the grace period: the last segment has ended, its timer has not fired
C8_Witness ==
  /\ isSpeaking /\ activeSourcesRef = {} /\ graceTimers > 0
  /\ \E i \in Msgs : sources[i].st = "ended"

\* ---- C9: no backward scheduling ---------------------------------------------

\* handler i starts its segment in this step
Scheduled(i) == sources[i].st = "none" /\ sources'[i].st # "none"

\* an interruption has been processed and nothing was scheduled since: the
\* cursor still holds the 0 the interruption branch stored
AfterInterruption ==
  /\ nextStartTimeRef = 0
  /\ \E j \in Msgs : handlers[j].intr /\ handlers[j].pc = "done"

\* C9 (P2, no backward scheduling): while the session is open nextStartTime
\* decreases only in a step that processes an interruption, and the first
\* segment scheduled after an interruption starts no earlier than the clock of
\* the device at that step.
C9_NoBackward ==
  [][/\ (isConnected /\ isConnected' /\ ~(\E i \in Msgs : InterruptionStep(i)))
          => nextStartTimeRef' >= nextStartTimeRef
     /\ \A i \in Msgs :
          (AfterInterruption /\ Scheduled(i) /\ ~handlers[i].intr)
            => sources'[i].when >= sources'[i].at]_vars

\* ---- C10: teardown is idempotent --------------------------------------------

\* a step in which cleanup() runs
TeardownStep ==
  \/ Disconnect
  \/ Unmount
  \/ \E late \in BOOLEAN : ConnectThrow(late)
  \/ \E k \in Sessions :
       \/ OnClose(k) \/ OnError(k) \/ ConnRejected(k)
       \/ GetUserMediaFail(k) \/ GetUserMediaThrow(k)

Idle ==
  /\ ~isConnected /\ ~isConnecting /\ ~isSpeaking
  /\ nextStartTimeRef = 0 /\ activeSourcesRef = {}
  /\ inputAudioContextRef = 0 /\ outputAudioContextRef = 0
  /\ scriptProcessorRef = 0 /\ inputSourceRef = 0 /\ streamRef = 0
  /\ sessionPromiseRef = 0 /\ sessionResolveRef = 0
  /\ inputAnalyser = 0 /\ outputAnalyser = 0

ReleasedOnce ==
  /\ \A k \in Sessions :
       inputCloses[k] <= 1 /\ outputCloses[k] <= 1 /\ trackStops[k] <= 1
  /\ \A i \in Msgs : sources[i].stops <= 1

\* C10 (P4, teardown idempotence): every run of cleanup, from whatever state
\* and however many in a row, leaves the Idle state and has released no
\* context, stream or source a second time.
C10_TeardownIdempotent ==
  [][TeardownStep => (Idle' /\ ReleasedOnce')]_vars

\* cleanup has run twice on the same session (disconnect, then the onclose its
\* close() brought) and each resource was released once
C10_Witness ==
  /\ Idle
  /\ \E k \in Sessions :
       /\ closeCalled[k] /\ transport[k] = "closed"
       /\ inputCloses[k] = 1 /\ outputCloses[k] = 1 /\ trackStops[k] = 1

\* ---- C11: fatal errors ------------------------------------------------------

\* a step that handles a transport open failure (the rejected connect promise,
\* the catch of connect), a transport error event or a capture device failure
FatalStep ==
  \/ \E late \in BOOLEAN : ConnectThrow(late)
  \/ \E k \in Sessions :
       \/ ConnRejected(k) \/ OnError(k)
       \/ GetUserMediaFail(k) \/ GetUserMediaThrow(k)

\* no capture device, processing node, audio context or playing source of any
\* session is still held
Released ==
  /\ \A k \in Sessions :
       /\ stream[k] # "live" /\ ~processorOn[k]
       /\ inputCtx[k] \in {"none", "closed"}
       /\ outputCtx[k] \in {"none", "closed"}
  /\ \A i \in Msgs : sources[i].st # "live"

\* C11 (fatal errors): the step that handles a transport open failure, a
\* transport error event or a capture device failure leaves the hook torn
\* down (status disconnected, refs cleared, resources released) with a
\* non-null error, and starts no connection attempt.
C11_FatalTeardown ==
  [][FatalStep =>
        /\ Idle' /\ Released'
        /\ error' # NoError
        /\ nSessions' = nSessions]_vars

\* ---- C12: decode failure is local -------------------------------------------

\* the chunk of message i was dropped: its handler ended without a source
Dropped(i) ==
  handlers[i].pc = "done" /\ handlers[i].dur > 0 /\ sources[i].st = "none"

\* C12 (decode failure is local): the step in which the decode of a chunk
\* fails (the message not being an interruption) creates no source and leaves
\* the live set, the sources, isSpeaking, the status, the error and
\* nextStartTime as they were; and a chunk committed after a dropped one starts
\* at the cursor, which then advances by its duration.
C12_DecodeFailureLocal ==
  [][\A i \in Msgs :
        /\ (DecodeDone(i, FALSE) /\ ~handlers[i].intr) =>
             /\ sources' = sources /\ activeSourcesRef' = activeSourcesRef
             /\ isSpeaking' = isSpeaking
             /\ isConnected' = isConnected /\ isConnecting' = isConnecting
             /\ error' = error
             /\ nextStartTimeRef' = nextStartTimeRef
        /\ ((\E j \in Msgs : Dropped(j)) /\ DecodeDone(i, TRUE) /\ ~handlers[i].intr) =>
             /\ sources'[i].st = "live" /\ i \in activeSourcesRef'
             /\ sources'[i].when = nextStartTimeRef
             /\ nextStartTimeRef' = nextStartTimeRef + handlers[i].dur
             /\ isSpeaking']_vars

\* the chunk of a message was dropped while the segment of an earlier one was
\* live: the segment plays on, the cursor stays at its end, isSpeaking is true
C12_Witness ==
  \E i, j \in Msgs :
    /\ i < j
    /\ sources[i].st = "live" /\ activeSourcesRef = {i}
    /\ Dropped(j) /\ ~handlers[j].intr
    /\ nextStartTimeRef = sources[i].when + sources[i].dur
    /\ nextStartTimeRef > 0
    /\ isSpeaking /\ isConnected

\* ---- C13: capture ordering --------------------------------------------------

\* the frames of a sequence are in production order
InOrder(seq) == \A m, n \in 1..Len(seq) : m < n => seq[m] < seq[n]

\* the frames handed to send through the wrapper promise of session p, then
\* those still queued behind it
Through(p) ==
  (IF gate[p] # 0 THEN sentLog[gate[p]] ELSE <<>>) \o SentBy(waiters[p])

\* C13 (capture ordering): the frames sent through a readiness promise, then
\* those queued behind it, are in production order; a frame produced while
\* the hook holds a promise (the session is not torn down) goes to the end of
\* that sequence, sent at once when the handle is ready and queued otherwise;
\* no other step drops or reorders a frame; and once the handle is ready no
\* frame stays queued.
C13_CaptureOrder ==
  [][\A p \in Sessions :
        /\ InOrder(Through(p)')
        /\ gate'[p] # 0 => SentBy(waiters'[p]) = <<>>
        /\ \A k \in Sessions :
             (AudioProcess(k) /\ sessionPromiseRef = p)
               => Through(p)' = Append(Through(p), nFrames')
        /\ ~(\E k \in Sessions : AudioProcess(k)) => Through(p)' = Through(p)]_vars

\* every frame an open session produced has been handed to the send of its
\* handle
C13_Witness ==
  \E k \in Sessions :
    /\ sessionPromiseRef = k /\ isConnected /\ gate[k] = k
    /\ nFrames = MaxFrames /\ Len(sentLog[k]) = MaxFrames

\* ---- C14: back-to-back chunks -----------------------------------------------

\* the messages whose segment has been committed (started)
Committed == {i \in Msgs : sources[i].st # "none"}

RECURSIVE SumDur(_)
SumDur(S) ==
  IF S = {} THEN 0
  ELSE LET i == CHOOSE j \in S : TRUE IN sources[i].dur + SumDur(S \ {i})

\* the start of the first committed segment: nextStartTime before any commit
FirstStart == CHOOSE w \in {sources[i].when : i \in Committed} :
                \A i \in Committed : w <= sources[i].when

\* The chunks are processed one after another by the session in place: no
\* interruption among the messages, every message is of the session whose
\* output context the ref holds (cleanup clears the ref and only connect sets
\* it, so no teardown has run since that session's connect), and the clock of
\* that context has not passed the first start: it never exceeded
\* nextStartTime.
BackToBack ==
  /\ Committed # {}
  /\ \A i \in Msgs : ~handlers[i].intr
  /\ outputAudioContextRef # 0
  /\ \A i \in Msgs : handlers[i].sess \in {0, outputAudioContextRef}
  /\ clock[outputAudioContextRef] <= FirstStart

\* each start is the first start plus the durations committed before it, and
\* nextStartTime is the first start plus all of them
Cumulative ==
  BackToBack =>
    /\ \A i \in Committed :
         sources[i].when =
           FirstStart + SumDur({j \in Committed : sources[j].when < sources[i].when})
    /\ nextStartTimeRef = FirstStart + SumDur(Committed)

\* C14 (scenario B, generalised): re-anchoring leaves nextStartTime alone
\* while the device clock does not exceed it; a commit starts its segment at
\* the value nextStartTime has before the step and advances nextStartTime by
\* exactly the segment's duration; so with back-to-back chunks the k-th start
\* is the initial nextStartTime plus the first k-1 durations and the final
\* nextStartTime the initial one plus all of them.
C14_BackToBack ==
  [][/\ \A k \in Sessions, d \in Durations :
          (OnMessage(k, d, FALSE) /\ outputCtx[k] # "suspended"
             /\ clock[k] <= nextStartTimeRef)
            => nextStartTimeRef' = nextStartTimeRef
     /\ \A i \in Msgs :
          (DecodeDone(i, TRUE) /\ ~handlers[i].intr) =>
             /\ sources'[i].when = nextStartTimeRef
             /\ nextStartTimeRef' = nextStartTimeRef + handlers[i].dur
     /\ Cumulative']_vars

\* chunks of durations 2 and 1 from nextStartTime 1: starts 1 and 3, final 4
C14_Witness ==
  /\ BackToBack /\ Committed = Msgs
  /\ sources[1].when = 1 /\ sources[1].dur = 2
  /\ sources[2].when = 3 /\ sources[2].dur = 1
  /\ nextStartTimeRef = 4

\* ---- C15: no scheduling into the past ---------------------------------------

\* C15: every segment was started at a time (the nextStartTime read at the
\* step that called start) no earlier than the clock of its device at that
\* step.
C15_NoPast ==
  \A i \in Committed : sources[i].when >= sources[i].at

\* ---- C16: arrival order -----------------------------------------------------

\* C16: of two chunks of one session, with no interruption among the messages,
\* the one whose message was delivered first is scheduled strictly before the
\* other, which starts no earlier than the first one's end.
C16_ArrivalOrder ==
  \A i, j \in Committed :
    (i < j /\ sources[i].ctx = sources[j].ctx /\ \A l \in Msgs : ~handlers[l].intr)
      => /\ sources[i].when < sources[j].when
         /\ sources[j].when >= sources[i].when + sources[i].dur

\* ---- C17: barge-in discards the utterance -----------------------------------

\* the interruption carried by message j has been processed
Interrupted(j) == handlers[j].intr /\ handlers[j].pc = "done"

\* C17: once the interruption of a message has been processed no chunk
\* delivered before that message is a live segment.
C17_BargeIn ==
  \A i, j \in Msgs :
    (i < j /\ Interrupted(j) /\ handlers[i].sess = handlers[j].sess)
      => sources[i].st # "live"

\* ---- C18: grace delay on natural completion ---------------------------------

\* no source has been stopped, by an interruption or by cleanup: every ended
\* event so far is a natural completion
AllNatural ==
  /\ \A l \in Msgs : ~handlers[l].intr
  /\ \A l \in Msgs : sources[l].st \notin {"stopped", "stoppedEnded"}

\* C18: while every ended event is a natural completion, isSpeaking turns
\* false through the timer of an ended event only when no later ended event
\* has its timer still pending.  All timers have the same delay, so they fire
\* in the order they were armed: a timer still pending when another fires was
\* armed by a more recent end, less than a grace delay ago.
C18_GraceDelay ==
  [][(GraceTimer /\ isSpeaking /\ ~isSpeaking' /\ AllNatural)
        => graceTimers' = 0]_vars

\* ---- C19: graceful close on disconnect --------------------------------------

\* C19: once the connect promise of a session has delivered its handle (its
\* transport has opened), a close requested by disconnect() for that session
\* has been invoked on the handle: none is left queued behind the wrapper
\* promise.  The reaction of the connect promise runs once, so a request
\* still queued after it is never served.
C19_CloseAttempted ==
  \A k \in Sessions :
    (connPromise[k] = "resolved" /\ ClosedBy(waiters[k])) => closeCalled[k]

\* ---- C20: one status at a time ----------------------------------------------

\* C20: isConnected and isConnecting are never both true.
C20_OneStatus == ~(isConnected /\ isConnecting)

\* ---- C21: the readiness gate and its own handle -----------------------------

\* C21: the wrapper promise of a session is resolved only with the handle of
\* that session's transport, and every frame handed to the send of a
\* transport was captured by the session of that transport.
C21_OwnHandle ==
  \A k \in Sessions :
    /\ gate[k] \in {0, k}
    /\ \A f \in FramesOf(sentLog[k]) : frameSrc[f] = k

\* ---- C22: the activity signal settles ---------------------------------------

\* every started segment has had its ended event and every grace timer has
\* fired; a handler may still hang in its await of resume() or of the decode
Settled ==
  /\ \A i \in Msgs : sources[i].st \notin {"live", "stopped"}
  /\ graceTimers = 0

\* C22: in every state in which every scheduled segment has ended and every
\* grace timer has fired, isSpeaking is false, whatever chunks, interruptions
\* and teardowns came before and whether or not a handler still awaits.  Only
\* the commit of a chunk sets isSpeaking, and it starts a segment; so once
\* the last chunk has been committed and, as the claim assumes, every segment
\* ends and every timer fires, isSpeaking is false and stays false.
C22_Settles == Settled => ~isSpeaking

\* two segments have gone, one by playing to its end and one stopped by the
\* interruption its own message carried, and every timer has fired
C22_Witness ==
  /\ Settled /\ ~isSpeaking
  /\ \E i, j \in Msgs :
       /\ sources[i].st = "ended"
       /\ sources[j].st = "stoppedEnded" /\ handlers[j].intr

====
